---- MODULE Spec2Model ----
(***************************************************************************)
(* AutomateFlow Tracker: the pagination / filter state controller          *)
(* (src/App.tsx, component App) and the fetch client it calls              *)
(* (src/unnamed/part_000: getAuthToken, getWorkflowsFromUrl,               *)
(* fetchWorkflows).                                                        *)
(*                                                                         *)
(* Conventions.  A JavaScript string is a sequence of tokens (each token a *)
(* TLA+ string); the empty sequence is the empty string.  A nullable value *)
(* (string | null, number | null, an optional argument) is a sequence too: *)
(* <<>> is null / undefined, and for numbers <<n>> is the number n.  Since *)
(* every test the code makes on a nullable string is a truthiness test     *)
(* (`if (url)`, `!nextLink`, `x || null`), null and "" need not be told    *)
(* apart.                                                                  *)
(***************************************************************************)
EXTENDS Integers, Sequences, FiniteSets, TLC

VARIABLES
    workflows,          \* App.tsx:109  the displayed records
    isLoading,          \* App.tsx:110
    error,              \* App.tsx:111  "" is null
    sortConfig,         \* App.tsx:112
    searchTerm,         \* App.tsx:117  draft filter
    selectedCategory,   \* App.tsx:118  draft filter
    selectedStatus,     \* App.tsx:119  draft filter
    appliedFilters,     \* App.tsx:120
    totalCount,         \* App.tsx:123
    currentPage,        \* App.tsx:124
    nextLink,           \* App.tsx:125
    pageUrlHistory,     \* App.tsx:126
    inflight,           \* the pending fetchPageData calls, oldest first
    last,               \* history variable: the latest step that started or completed a call
    nfetch,             \* history variable: the number of fetchPageData calls so far
    qArgs,              \* arguments of a stand-alone fetchWorkflows call
    qUrl,               \* <<>> or <<the locator that call resolved to>>
    cIn,                \* the endpoints' responses to a stand-alone fetchWorkflows run
    cOut                \* <<>> or <<what that run sent and how it ended>>

appVars == <<workflows, isLoading, error, sortConfig, searchTerm, selectedCategory,
             selectedStatus, appliedFilters, totalCount, currentPage, nextLink,
             pageUrlHistory, inflight, last, nfetch>>
qVars == <<qArgs, qUrl, cIn, cOut>>
vars == <<appVars, qVars>>

-----------------------------------------------------------------------------
(* Bounds of the model *)

\* at most this many fetchPageData calls are made in a run
MaxFetches == 3
\* the search texts given to a stand-alone fetchWorkflows call have at most this length
MaxSearchLen == 2

-----------------------------------------------------------------------------
(* Program constants *)

PAGE_SIZE == 50

DATAVERSE_URL == "https://wecare-ii.crm5.dynamics.com/api/data/v9.2/workflows"

Null == <<>>

NoError == ""

-----------------------------------------------------------------------------
(* The fetch client: request construction (fetchWorkflows)                 *)

\* faulty variant: the search text interpolated as it is
sanitizedSearch_raw(s) == s

\* searchTerm.replace(/'/g, "''")
RECURSIVE sanitizedSearch(_)
sanitizedSearch(s) ==
    IF s = <<>> THEN <<>>
    ELSE (IF Head(s) = "'" THEN <<"'", "'">> ELSE <<Head(s)>>) \o sanitizedSearch(Tail(s))

\* filterClauses.join(sep)
RECURSIVE join(_, _)
join(clauses, sep) ==
    IF clauses = <<>> THEN <<>>
    ELSE IF Len(clauses) = 1 THEN clauses[1]
    ELSE clauses[1] \o sep \o join(Tail(clauses), sep)

\* faulty variant: the category test written as a truthiness test, which drops category 0
categoryClause_truthy(category) ==
    IF category # Null /\ category[1] > 0
    THEN << <<"category eq ", ToString(category[1])>> >>
    ELSE <<>>

categoryClause(category) ==
    IF category # Null /\ category[1] >= 0
    THEN << <<"category eq ", ToString(category[1])>> >>
    ELSE <<>>

\* faulty variant: the status test written as a truthiness test, which drops status 0
filterClauses_truthyStatus(searchTerm_, category, status) ==
    (IF status # Null /\ status[1] # 0
     THEN << <<"statecode eq ", ToString(status[1])>> >> ELSE <<>>)
    \o (IF searchTerm_ # <<>>
        THEN << <<"(contains(name, ", "'">> \o sanitizedSearch(searchTerm_)
                \o <<"'", ") or contains(uniquename, ", "'">>
                \o sanitizedSearch(searchTerm_) \o <<"'", "))">> >>
        ELSE <<>>)
    \o categoryClause(category)

\* the filterClauses array after the three conditional pushes
filterClauses(searchTerm_, category, status) ==
    (IF status # Null THEN << <<"statecode eq ", ToString(status[1])>> >> ELSE <<>>)
    \o (IF searchTerm_ # <<>>
        THEN << <<"(contains(name, ", "'">> \o sanitizedSearch(searchTerm_)
                \o <<"'", ") or contains(uniquename, ", "'">>
                \o sanitizedSearch(searchTerm_) \o <<"'", "))">> >>
        ELSE <<>>)
    \o categoryClause(category)

\* faulty variant: the default order follows sortConfig.direction
orderbyValue_direction(sc) ==
    <<IF sc.key # "" THEN sc.key ELSE "modifiedon", " ",
      IF sc.direction = "ascending" THEN "asc" ELSE "desc">>

orderbyValue(sc) ==
    IF sc.key # ""
    THEN <<sc.key, " ", IF sc.direction = "ascending" THEN "asc" ELSE "desc">>
    ELSE <<"modifiedon", " ", "desc">>

\* the name/value pairs appended to queryParams, in order
queryParams(sc, searchTerm_, category, status) ==
    LET fc == filterClauses(searchTerm_, category, status) IN
    << <<"$top", <<ToString(PAGE_SIZE)>> >>, <<"$count", <<"true">> >> >>
    \o (IF Len(fc) > 0 THEN << <<"$filter", join(fc, <<" and ">>)>> >> ELSE <<>>)
    \o << <<"$orderby", orderbyValue(sc)>> >>

\* application/x-www-form-urlencoded serialisation of one token
urlencode(tok) ==
    CASE tok = "$top" -> "%24top"
      [] tok = "$count" -> "%24count"
      [] tok = "$filter" -> "%24filter"
      [] tok = "$orderby" -> "%24orderby"
      [] tok = " " -> "+"
      [] tok = "'" -> "%27"
      [] tok = " and " -> "+and+"
      [] tok = "statecode eq " -> "statecode+eq+"
      [] tok = "category eq " -> "category+eq+"
      [] tok = "(contains(name, " -> "%28contains%28name%2C+"
      [] tok = ") or contains(uniquename, " -> "%29+or+contains%28uniquename%2C+"
      [] tok = "))" -> "%29%29"
      [] OTHER -> tok

\* URLSearchParams.prototype.toString()
RECURSIVE toQueryString(_)
toQueryString(params) ==
    IF params = <<>> THEN <<>>
    ELSE LET p == params[1]
             one == <<urlencode(p[1]), "=">> \o [i \in 1..Len(p[2]) |-> urlencode(p[2][i])]
         IN IF Len(params) = 1 THEN one ELSE one \o <<"&">> \o toQueryString(Tail(params))

\* faulty variant: the request is built from the arguments even when a locator is given
fetchUrl_rebuilt(sc, searchTerm_, category, status, url) ==
    <<DATAVERSE_URL, "?">> \o toQueryString(queryParams(sc, searchTerm_, category, status))

\* the locator fetchWorkflows sends the data request to
fetchUrl(sc, searchTerm_, category, status, url) ==
    IF url # <<>>
    THEN url
    ELSE <<DATAVERSE_URL, "?">> \o toQueryString(queryParams(sc, searchTerm_, category, status))

-----------------------------------------------------------------------------
(* The fetch client: credential retrieval (getAuthToken)                   *)

\* A response body is its raw text together with what JSON.parse makes of it:
\* json = <<>> when JSON.parse throws, else <<v>> with v.isObject telling whether
\* the parsed value is a non-null object, and v.token / v.accessToken its fields
\* (type "absent", "string" or "other"; val the text of a string field).
Whitespace == {" ", "\n"}

absent == [type |-> "absent", val |-> <<>>]

str(v) == [type |-> "string", val |-> v]

plainBody(text) == [text |-> text, json |-> <<>>]

jsonBody(text, isObject, token, accessToken) ==
    [text |-> text,
     json |-> << [isObject |-> isObject, token |-> token, accessToken |-> accessToken] >>]

\* String.prototype.trim()
RECURSIVE trimStart(_)
trimStart(s) ==
    IF s # <<>> /\ Head(s) \in Whitespace THEN trimStart(Tail(s)) ELSE s

RECURSIVE trimEnd(_)
trimEnd(s) ==
    IF s # <<>> /\ s[Len(s)] \in Whitespace THEN trimEnd(SubSeq(s, 1, Len(s) - 1)) ELSE s

trim(s) == trimEnd(trimStart(s))

\* typeof f === 'string' && f
nonEmptyString(f) == f.type = "string" /\ f.val # <<>>

\* faulty variant: accessToken is looked at before token
getAuthToken_accessFirst(resp) ==
    IF ~resp.ok
    THEN [threw |-> TRUE, message |-> "HTTP error " \o ToString(resp.status) \o " while fetching token.",
          token |-> <<>>]
    ELSE LET b == resp.body
             fromJson ==
                 IF b.json # <<>> /\ b.json[1].isObject
                 THEN IF nonEmptyString(b.json[1].accessToken)
                      THEN <<b.json[1].accessToken.val>>
                      ELSE IF nonEmptyString(b.json[1].token) THEN <<b.json[1].token.val>>
                           ELSE <<>>
                 ELSE <<>>
         IN [threw |-> FALSE, message |-> "",
             token |-> IF fromJson # <<>> THEN fromJson[1] ELSE trim(b.text)]

\* getAuthToken, given the credential endpoint's response [ok, body]:
\* [threw |-> TRUE, message] or [threw |-> FALSE, token]
getAuthToken(resp) ==
    IF ~resp.ok
    THEN [threw |-> TRUE, message |-> "HTTP error " \o ToString(resp.status) \o " while fetching token.",
          token |-> <<>>]
    ELSE LET b == resp.body
             fromJson ==
                 IF b.json # <<>> /\ b.json[1].isObject
                 THEN IF nonEmptyString(b.json[1].token) THEN <<b.json[1].token.val>>
                      ELSE IF nonEmptyString(b.json[1].accessToken)
                           THEN <<b.json[1].accessToken.val>>
                           ELSE <<>>
                 ELSE <<>>
         IN [threw |-> FALSE, message |-> "",
             token |-> IF fromJson # <<>> THEN fromJson[1] ELSE trim(b.text)]

\* getWorkflowsFromUrl, given the data endpoint's response to a GET of url:
\* [threw |-> TRUE, message] or the normalised page
getWorkflowsFromUrl(url, resp) ==
    IF ~resp.ok
    THEN [threw |-> TRUE, message |-> "HTTP error " \o ToString(resp.status) \o " while fetching workflows.",
          workflows |-> <<>>, nextLink |-> <<>>, totalCount |-> 0]
    ELSE [threw |-> FALSE, message |-> "",
          workflows |-> resp.value,
          nextLink |-> resp.nextLink,
          totalCount |-> IF resp.count # Null THEN resp.count[1] ELSE 0]

-----------------------------------------------------------------------------
(* The environment: what the user can enter and what the endpoints answer  *)

\* the column header clicked: "name", a column other than the initial sort
\* column, so that handleSort meets both a change of column and a repeated click
SortKeys == {"name"}

\* texts typed in the search bar
SearchTerms == {<<>>, <<"a", "'">>}

\* the options of the category and status selects the controller is explored with: the
\* empty option (null).  The filter values themselves matter to the request
\* builder only, which SpecQuery explores on all of them.
CategoryOptions == {Null}

StatusOptions == {Null}

\* the forward cursor (@odata.nextLink) the data endpoint hands out with the page
\* of a locator, when there are more pages: the same query, one page further on
hasSkip(url) == Len(url) >= 2 /\ url[Len(url) - 1] = "&$skiptoken="

NextLinkOf(url) ==
    IF hasSkip(url)
    THEN SubSeq(url, 1, Len(url) - 1) \o <<IF url[Len(url)] = "2" THEN "3" ELSE "4">>
    ELSE url \o <<"&$skiptoken=", "2">>

\* the record array the data endpoint returns for a locator
PageOf(url) == <<url>>

TokenResponses ==
    {[ok |-> FALSE, status |-> 401, body |-> plainBody(<<"denied">>)],
     [ok |-> TRUE, status |-> 200, body |-> plainBody(<<"abc123", "\n">>)]}

DataResponses(url) ==
    {[ok |-> FALSE, status |-> 500, value |-> <<>>, nextLink |-> <<>>, count |-> Null]}
    \cup {[ok |-> TRUE, status |-> 200, value |-> PageOf(url), nextLink |-> nl, count |-> c] :
            nl \in {<<>>, NextLinkOf(url)}, c \in {Null, <<120>>}}

-----------------------------------------------------------------------------
(* The controller: component App                                           *)

\* the pagination state a trigger finds
PageState == [currentPage |-> currentPage, pageUrlHistory |-> pageUrlHistory,
              nextLink |-> nextLink]

\* faulty variant: fetchPageData reads the draft filters
fetchWorkflowsArgs_draft(sc, af, url) ==
    [sortConfig |-> sc, searchTerm |-> searchTerm, category |-> selectedCategory,
     status |-> selectedStatus, url |-> url]

\* the arguments fetchPageData passes to fetchWorkflows, from the sortConfig and
\* appliedFilters of its closure
fetchWorkflowsArgs(sc, af, url) ==
    [sortConfig |-> sc, searchTerm |-> af.search, category |-> af.category,
     status |-> af.status, url |-> url]

\* the latest step before a trigger, when that step completed a call: what the
\* call was
Prior ==
    IF last.op = "done"
    THEN << [trigger |-> last.f[1].trigger, pre |-> last.f[1].pre, idle |-> last.f[1].idle,
             direct |-> last.direct, ok |-> last.ok] >>
    ELSE <<>>

\* the filters handleApplyFilters commits
draftFilters == [search |-> searchTerm, category |-> selectedCategory, status |-> selectedStatus]

\* a pending fetchPageData(url, isNewQuery) call: its isNewQuery and the arguments
\* of its fetchWorkflows call; and, for the record, the trigger that made the
\* call, the PageState and the draft filters the trigger found, whether no call
\* was pending then, the step before the trigger, and the call's number in the
\* order of starting (the call started last has seq = nfetch)
Call(url, isNewQuery, sc, af, trigger) ==
    [isNewQuery |-> isNewQuery, args |-> fetchWorkflowsArgs(sc, af, url),
     trigger |-> trigger, pre |-> PageState, draft |-> draftFilters,
     idle |-> inflight = <<>>, prior |-> Prior, seq |-> nfetch + 1]

\* the locator the call's data request goes to
requestUrl(f) ==
    fetchUrl(f.args.sortConfig, f.args.searchTerm, f.args.category, f.args.status, f.args.url)

\* the record of a step that starts or completes a call: the operation ("done" for
\* a completion); whether it called fetchPageData; the requests it sent; the number
\* of calls pending when it began; the call; for a completion, whether the call
\* succeeded and whether the latest step before was the trigger of this very call;
\* data is <<>>, or <<what fetchWorkflows returned>> for a successful completion
Step(op, started, requests, f, ok, direct) ==
    [op |-> op, started |-> started, requests |-> requests, pending |-> Len(inflight),
     f |-> f, ok |-> ok, direct |-> direct, data |-> <<>>]

Remove(seq, i) == SubSeq(seq, 1, i - 1) \o SubSeq(seq, i + 1, Len(seq))

\* fetchPageData up to its await: the loading flag, the error reset, the call to
\* fetchWorkflows, which sends the credential request
fetchPageData(f) ==
    /\ nfetch < MaxFetches
    /\ nfetch' = nfetch + 1
    /\ isLoading' = TRUE
    /\ error' = NoError
    /\ inflight' = Append(inflight, f)
    /\ last' = Step(f.trigger, TRUE, <<"token">>, <<f>>, FALSE, FALSE)

\* JSX: the record table is rendered
TableRendered == ~isLoading /\ error = NoError

initialSortConfig == [key |-> "modifiedon", direction |-> "descending"]

initialFilters == [search |-> <<>>, category |-> Null, status |-> Null]

\* the call the mount effect makes
mountCall ==
    [isNewQuery |-> TRUE, args |-> fetchWorkflowsArgs(initialSortConfig, initialFilters, <<>>),
     trigger |-> "mount",
     pre |-> [currentPage |-> 1, pageUrlHistory |-> <<>>, nextLink |-> <<>>],
     draft |-> initialFilters, idle |-> TRUE, prior |-> <<>>, seq |-> 1]

Init ==
    /\ workflows = <<>>
    /\ isLoading = TRUE
    /\ error = NoError
    /\ sortConfig = initialSortConfig
    /\ searchTerm = <<>>
    /\ selectedCategory = Null
    /\ selectedStatus = Null
    /\ appliedFilters = initialFilters
    /\ totalCount = 0
    /\ currentPage = 1
    /\ nextLink = <<>>
    /\ pageUrlHistory = <<>>
    \* the mount effect has called fetchPageData(undefined, true)
    /\ inflight = <<mountCall>>
    /\ nfetch = 1
    /\ last = [op |-> "mount", started |-> TRUE, requests |-> <<"token">>, pending |-> 0,
               f |-> <<mountCall>>, ok |-> FALSE, direct |-> FALSE, data |-> <<>>]
    /\ qArgs = fetchWorkflowsArgs(initialSortConfig, initialFilters, <<>>)
    /\ qUrl = <<>>
    /\ cIn = <<>>
    /\ cOut = <<>>

\* faulty variant: the search runs as the user types
setSearchTerm_live ==
    \E t \in SearchTerms :
        /\ searchTerm' = t
        /\ appliedFilters' = [appliedFilters EXCEPT !.search = t]
        /\ fetchPageData([isNewQuery |-> TRUE,
                          args |-> fetchWorkflowsArgs(sortConfig, appliedFilters', <<>>),
                          trigger |-> "setSearchTerm", pre |-> PageState,
                          draft |-> [draftFilters EXCEPT !.search = t],
                          idle |-> inflight = <<>>, prior |-> Prior, seq |-> nfetch + 1])
        /\ UNCHANGED <<workflows, sortConfig, selectedCategory, selectedStatus,
                       totalCount, currentPage, nextLink, pageUrlHistory, qVars>>

setSearchTerm ==
    /\ \E t \in SearchTerms : searchTerm' = t
    /\ UNCHANGED <<workflows, isLoading, error, sortConfig, selectedCategory, selectedStatus,
                   appliedFilters, totalCount, currentPage, nextLink, pageUrlHistory,
                   inflight, last, nfetch, qVars>>

setSelectedCategory ==
    /\ \E c \in CategoryOptions : selectedCategory' = c
    /\ UNCHANGED <<workflows, isLoading, error, sortConfig, searchTerm, selectedStatus,
                   appliedFilters, totalCount, currentPage, nextLink, pageUrlHistory,
                   inflight, last, nfetch, qVars>>

setSelectedStatus ==
    /\ \E c \in StatusOptions : selectedStatus' = c
    /\ UNCHANGED <<workflows, isLoading, error, sortConfig, searchTerm, selectedCategory,
                   appliedFilters, totalCount, currentPage, nextLink, pageUrlHistory,
                   inflight, last, nfetch, qVars>>

\* handleApplyFilters, and the effect its new appliedFilters object sets off
handleApplyFilters ==
    /\ appliedFilters' = draftFilters
    /\ fetchPageData(Call(<<>>, TRUE, sortConfig, appliedFilters', "handleApplyFilters"))
    /\ UNCHANGED <<workflows, sortConfig, searchTerm, selectedCategory, selectedStatus,
                   totalCount, currentPage, nextLink, pageUrlHistory, qVars>>

\* the sortConfig handleSort(key) sets
nextSortConfig(prevConfig, key) ==
    [key |-> key,
     direction |-> IF prevConfig.key = key /\ prevConfig.direction = "ascending"
                   THEN "descending" ELSE "ascending"]

\* faulty variant: the effect's fetch runs with the sortConfig of the render before
handleSort_stale ==
    /\ TableRendered
    /\ \E key \in SortKeys : sortConfig' = nextSortConfig(sortConfig, key)
    /\ fetchPageData(Call(<<>>, TRUE, sortConfig, appliedFilters, "handleSort"))
    /\ UNCHANGED <<workflows, searchTerm, selectedCategory, selectedStatus, appliedFilters,
                   totalCount, currentPage, nextLink, pageUrlHistory, qVars>>

\* handleSort (a click on a header of the rendered table), and the effect its new
\* sortConfig object sets off
handleSort ==
    /\ TableRendered
    /\ \E key \in SortKeys : sortConfig' = nextSortConfig(sortConfig, key)
    /\ fetchPageData(Call(<<>>, TRUE, sortConfig', appliedFilters, "handleSort"))
    /\ UNCHANGED <<workflows, searchTerm, selectedCategory, selectedStatus, appliedFilters,
                   totalCount, currentPage, nextLink, pageUrlHistory, qVars>>

\* the Pagination component, which holds the Next and Previous buttons, is rendered
PaginationRendered == totalCount # 0

\* faulty variant: the early return tests the loading flag only
nextPageIgnored_loadingOnly == isLoading

\* the early return of handleNextPage
nextPageIgnored == nextLink = <<>> \/ isLoading

\* faulty variant: handleNextPage counts the page and forgets to push the locator
historyAfterNext_noPush(history, link) == history

\* the history handleNextPage sets
historyAfterNext(history, link) == Append(history, link)

\* handleNextPage (a click on Next; on a disabled Next button the click does
\* nothing, which is what the early return does too)
handleNextPage ==
    /\ PaginationRendered
    /\ IF nextPageIgnored
       THEN UNCHANGED vars
       ELSE /\ currentPage' = currentPage + 1
            /\ pageUrlHistory' = historyAfterNext(pageUrlHistory, nextLink)
            /\ fetchPageData(Call(nextLink, FALSE, sortConfig, appliedFilters,
                                  "handleNextPage"))
            /\ UNCHANGED <<workflows, sortConfig, searchTerm, selectedCategory,
                           selectedStatus, appliedFilters, totalCount, nextLink, qVars>>

\* the early return of handlePrevPage
prevPageIgnored == currentPage <= 1 \/ isLoading

\* faulty variant: handlePrevPage forgets to pop the current page's locator
newHistoryOf_noPop(history) == history

\* newHistory: a copy of the history with its last entry popped
newHistoryOf(history) == SubSeq(history, 1, Len(history) - 1)

\* prevPageUrl: the last entry of newHistory, undefined when it is empty
prevPageUrlOf(newHistory) ==
    IF newHistory = <<>> THEN <<>> ELSE newHistory[Len(newHistory)]

\* faulty variant: neither the page number nor prevPageUrl is tested
handlePrevPage_noGuard ==
    /\ PaginationRendered
    /\ LET newHistory == newHistoryOf(pageUrlHistory)
           prevPageUrl == prevPageUrlOf(newHistory)
       IN IF ~isLoading
          THEN /\ currentPage' = currentPage - 1
               /\ pageUrlHistory' = newHistory
               /\ fetchPageData(Call(prevPageUrl, FALSE, sortConfig, appliedFilters,
                                     "handlePrevPage"))
               /\ UNCHANGED <<workflows, sortConfig, searchTerm, selectedCategory,
                              selectedStatus, appliedFilters, totalCount, nextLink, qVars>>
          ELSE UNCHANGED vars

\* handlePrevPage (a click on Previous)
handlePrevPage ==
    /\ PaginationRendered
    /\ LET newHistory == newHistoryOf(pageUrlHistory)
           prevPageUrl == prevPageUrlOf(newHistory)
       IN IF ~prevPageIgnored /\ prevPageUrl # <<>>
          THEN /\ currentPage' = currentPage - 1
               /\ pageUrlHistory' = newHistory
               /\ fetchPageData(Call(prevPageUrl, FALSE, sortConfig, appliedFilters,
                                     "handlePrevPage"))
               /\ UNCHANGED <<workflows, sortConfig, searchTerm, selectedCategory,
                              selectedStatus, appliedFilters, totalCount, nextLink, qVars>>
          ELSE UNCHANGED vars

\* whether the latest step recorded is the trigger that made pending call i
Direct(i) == last.op # "done" /\ last.f = <<inflight[i]>>

\* faulty variant: the catch block logs the error and does not set it
fetchFailed_noError(i, message, requests) ==
    /\ isLoading' = FALSE
    /\ inflight' = Remove(inflight, i)
    /\ last' = Step("done", FALSE, requests, <<inflight[i]>>, FALSE, Direct(i))
    /\ UNCHANGED <<workflows, error, sortConfig, searchTerm, selectedCategory, selectedStatus,
                   appliedFilters, totalCount, currentPage, nextLink, pageUrlHistory,
                   nfetch, qVars>>

\* the catch and finally blocks of fetchPageData, for pending call i
fetchFailed(i, message, requests) ==
    /\ error' = "Failed to fetch data: " \o message \o ". Please check console for details."
    /\ isLoading' = FALSE
    /\ inflight' = Remove(inflight, i)
    /\ last' = Step("done", FALSE, requests, <<inflight[i]>>, FALSE, Direct(i))
    /\ UNCHANGED <<workflows, sortConfig, searchTerm, selectedCategory, selectedStatus,
                   appliedFilters, totalCount, currentPage, nextLink, pageUrlHistory,
                   nfetch, qVars>>

\* faulty variant: every successful call resets the page number
pageOnSuccess_reset(f, page) == 1

\* the page number and the history a successful call f leaves
pageOnSuccess(f, page) == IF f.isNewQuery THEN 1 ELSE page

\* faulty variant: a new query pushes its locator onto the old history
historyOnSuccess_push(f, history) ==
    IF f.isNewQuery THEN Append(history, requestUrl(f)) ELSE history

historyOnSuccess(f, history) == IF f.isNewQuery THEN <<requestUrl(f)>> ELSE history

\* the try and finally blocks of fetchPageData after the await, for pending call i
fetchSucceeded(i, data) ==
    /\ workflows' = data.workflows
    /\ totalCount' = data.totalCount
    /\ nextLink' = data.nextLink
    /\ currentPage' = pageOnSuccess(inflight[i], currentPage)
    /\ pageUrlHistory' = historyOnSuccess(inflight[i], pageUrlHistory)
    /\ isLoading' = FALSE
    /\ inflight' = Remove(inflight, i)
    /\ last' = [Step("done", FALSE, <<"data">>, <<inflight[i]>>, TRUE, Direct(i))
                   EXCEPT !.data = << [workflows |-> data.workflows,
                                       nextLink |-> data.nextLink,
                                       totalCount |-> data.totalCount,
                                       requestUrl |-> requestUrl(inflight[i])] >>]
    /\ UNCHANGED <<error, sortConfig, searchTerm, selectedCategory, selectedStatus,
                   appliedFilters, nfetch, qVars>>

\* faulty variant: the data request goes out without waiting for the credential,
\* and a refused credential fails the call afterwards
fetchWorkflowsReturns_parallel ==
    \E i \in 1..Len(inflight) : \E tokenResp \in TokenResponses :
        LET t == getAuthToken(tokenResp) IN
        \E dataResp \in DataResponses(requestUrl(inflight[i])) :
            LET d == getWorkflowsFromUrl(requestUrl(inflight[i]), dataResp) IN
            IF t.threw
            THEN fetchFailed(i, t.message, <<"data">>)
            ELSE IF d.threw
                 THEN fetchFailed(i, d.message, <<"data">>)
                 ELSE fetchSucceeded(i, d)

\* the fetchWorkflows call of pending call i runs to its end: the credential
\* endpoint answers, and unless getAuthToken throws the data request goes out to
\* requestUrl with the token and the data endpoint answers.  Nothing in App can
\* observe how far a pending fetchWorkflows has got, so the model takes its two
\* responses in one step.
fetchWorkflowsReturns ==
    \E i \in 1..Len(inflight) : \E tokenResp \in TokenResponses :
        LET t == getAuthToken(tokenResp) IN
        IF t.threw
        THEN fetchFailed(i, t.message, <<>>)
        ELSE \E dataResp \in DataResponses(requestUrl(inflight[i])) :
                LET d == getWorkflowsFromUrl(requestUrl(inflight[i]), dataResp) IN
                IF d.threw
                THEN fetchFailed(i, d.message, <<"data">>)
                ELSE fetchSucceeded(i, d)

Next ==
    \/ setSearchTerm
    \/ setSelectedCategory
    \/ setSelectedStatus
    \/ handleApplyFilters
    \/ handleSort
    \/ handleNextPage
    \/ handlePrevPage
    \/ fetchWorkflowsReturns

Spec == Init /\ [][Next]_vars

\* every request returns: a pending fetchWorkflows call is a promise on two HTTP
\* exchanges, and its completion is enabled for as long as the call is pending
SpecFair == Spec /\ WF_vars(fetchWorkflowsReturns)

-----------------------------------------------------------------------------
(* A stand-alone call of fetchWorkflows, on any arguments                  *)

\* the sequences over the search alphabet of length at most n
RECURSIVE SearchTexts(_)
SearchTexts(n) ==
    IF n = 0 THEN {<<>>}
    ELSE SearchTexts(n - 1)
         \cup {Append(t, c) : t \in {u \in SearchTexts(n - 1) : Len(u) = n - 1}, c \in {"a", "'"}}

QueryInputs ==
    [sortConfig : [key : {""} \cup SortKeys, direction : {"ascending", "descending"}],
     searchTerm : SearchTexts(MaxSearchLen),
     category : {Null} \cup {<<c>> : c \in -2..2},
     status : {Null, <<0>>, <<1>>},
     url : {<<>>, <<DATAVERSE_URL, "?", "%24top", "=", "50", "&$skiptoken=", "2">>}]

\* fetchWorkflows is called on some arguments and resolves its request locator
fetchWorkflowsCall ==
    /\ qUrl = <<>>
    /\ \E a \in QueryInputs :
          /\ qArgs' = a
          /\ qUrl' = <<fetchUrl(a.sortConfig, a.searchTerm, a.category, a.status, a.url)>>
    /\ UNCHANGED <<appVars, cIn, cOut>>

SpecQuery == Init /\ [][fetchWorkflowsCall]_vars

-----------------------------------------------------------------------------
(* A stand-alone run of fetchWorkflows against the two endpoints           *)

\* the plain-text bodies have at most this length
MaxBodyLen == 3

\* the texts over a token piece, a blank and a line end, of length at most n
RECURSIVE BodyTexts(_)
BodyTexts(n) ==
    IF n = 0 THEN {<<>>}
    ELSE BodyTexts(n - 1)
         \cup {Append(t, c) : t \in {u \in BodyTexts(n - 1) : Len(u) = n - 1},
                              c \in {"abc", " ", "\n"}}

\* a field of a parsed JSON object that is neither absent nor a string
other == [type |-> "other", val |-> <<>>]

FieldValues == {absent, other, str(<<>>), str(<<"t1">>), str(<<"t2">>)}

\* the text of one field of a JSON object
fieldText(name, f) ==
    IF f.type = "absent" THEN <<>>
    ELSE IF f.type = "string" THEN <<name, ":", "\"">> \o f.val \o <<"\"", ",">>
    ELSE <<name, ":", "0", ",">>

\* the body that is the JSON object with these two fields
objectBody(token, accessToken) ==
    jsonBody(<<"{">> \o fieldText("token", token) \o fieldText("accessToken", accessToken)
                \o <<"}", "\n">>,
             TRUE, token, accessToken)

\* what the credential endpoint may answer: a failure; a plain text; a JSON
\* object with any combination of the two fields; JSON that is not an object
ClientTokenResponses ==
    {[ok |-> FALSE, status |-> 401, body |-> b] : b \in {plainBody(<<"denied">>),
                                                        objectBody(str(<<"t1">>), absent)}}
    \cup {[ok |-> TRUE, status |-> 200, body |-> plainBody(t)] : t \in BodyTexts(MaxBodyLen)}
    \cup {[ok |-> TRUE, status |-> 200, body |-> objectBody(t, a)] :
              t \in FieldValues, a \in FieldValues}
    \cup {[ok |-> TRUE, status |-> 200, body |-> jsonBody(<<"null">>, FALSE, absent, absent)]}

\* fetchWorkflows(args) run to its end against the two responses: the requests it
\* sent, the bearer token of the data request, and its outcome
fetchWorkflows(args, tokenResp, dataResp) ==
    LET t == getAuthToken(tokenResp)
        url == fetchUrl(args.sortConfig, args.searchTerm, args.category, args.status, args.url)
        d == getWorkflowsFromUrl(url, dataResp)
    IN IF t.threw
       THEN [requests |-> <<"token">>, dataUrl |-> <<>>, bearer |-> <<>>, threw |-> TRUE,
             message |-> t.message, data |-> <<>>]
       ELSE [requests |-> <<"token", "data">>, dataUrl |-> <<url>>, bearer |-> t.token,
             threw |-> d.threw, message |-> d.message,
             data |-> IF d.threw THEN <<>>
                      ELSE << [workflows |-> d.workflows, nextLink |-> d.nextLink,
                               totalCount |-> d.totalCount, requestUrl |-> url] >>]

\* the arguments of the run: the initial query; a query with every filter set;
\* the second page of the initial query, asked for with other sort and filter
\* arguments than those it was built from
ClientArgs ==
    {mountCall.args,
     fetchWorkflowsArgs([key |-> "name", direction |-> "ascending"],
                        [search |-> <<"a">>, category |-> <<1>>, status |-> <<0>>], <<>>),
     fetchWorkflowsArgs([key |-> "name", direction |-> "ascending"],
                        [search |-> <<"a">>, category |-> <<1>>, status |-> <<0>>],
                        NextLinkOf(requestUrl(mountCall)))}

fetchWorkflowsRun ==
    /\ cOut = <<>>
    /\ \E args \in ClientArgs : \E tokenResp \in ClientTokenResponses :
          \E dataResp \in DataResponses(fetchUrl(args.sortConfig, args.searchTerm,
                                                  args.category, args.status, args.url)) :
             /\ cIn' = <<[args |-> args, tokenResp |-> tokenResp, dataResp |-> dataResp]>>
             /\ cOut' = <<fetchWorkflows(args, tokenResp, dataResp)>>
    /\ UNCHANGED <<appVars, qArgs, qUrl>>

SpecClient == Init /\ [][fetchWorkflowsRun]_vars

-----------------------------------------------------------------------------
(* Properties                                                              *)

\* the latest recorded step completed a call made by `trigger`, with outcome ok
Completed(trigger, ok) ==
    last.op = "done" /\ last.ok = ok /\ last.f[1].trigger = trigger

\* C1: when the fetch started by an accepted handleNextPage fails, currentPage,
\* pageUrlHistory and nextLink have the values they had before the trigger.
C1_FailedNextLeavesPagination ==
    Completed("handleNextPage", FALSE) => PageState = last.f[1].pre

\* C2: when the fetch started by an accepted handlePrevPage fails, pageUrlHistory
\* still holds the popped entry and currentPage has its value before the trigger.
C2_FailedPrevRolledBack ==
    Completed("handlePrevPage", FALSE) =>
        /\ pageUrlHistory = last.f[1].pre.pageUrlHistory
        /\ currentPage = last.f[1].pre.currentPage

\* C3 as stated: once the fetch started by handleApplyFilters has completed, in
\* whatever way, currentPage is 1 and pageUrlHistory has exactly one entry (taken
\* here for the fetches that ran alone: triggered with nothing pending, and
\* completed before any other call was started).
C3_ApplyResetsOnCompletion ==
    (last.op = "done" /\ last.f[1].trigger = "handleApplyFilters"
        /\ last.f[1].idle /\ last.direct) =>
        (currentPage = 1 /\ Len(pageUrlHistory) = 1)

\* C3 amended: once the fetch started by handleApplyFilters has completed
\* successfully, currentPage is 1 and pageUrlHistory has exactly one entry,
\* whatever the pagination depth before.
C3_ApplyResetsOnSuccess ==
    Completed("handleApplyFilters", TRUE) => (currentPage = 1 /\ Len(pageUrlHistory) = 1)

\* a fetch started by handleApplyFilters at depth 2 or more has succeeded
C3_Witness ==
    Completed("handleApplyFilters", TRUE) /\ last.f[1].pre.currentPage > 1

\* C4 as stated: whenever no fetch is in flight, also before the first fetch has
\* succeeded, the length of pageUrlHistory equals currentPage.
C4_HistoryLengthIsPage ==
    inflight = <<>> => Len(pageUrlHistory) = currentPage

\* C4 amended: whenever no fetch is in flight, either pageUrlHistory is empty,
\* currentPage is 1 and no records have been fetched yet, or pageUrlHistory is
\* not empty and its length equals currentPage.
C4_HistoryLengthIsPageOnceLoaded ==
    inflight = <<>> =>
        \/ (pageUrlHistory = <<>> /\ currentPage = 1 /\ workflows = <<>>)
        \/ (pageUrlHistory # <<>> /\ Len(pageUrlHistory) = currentPage)

\* no fetch is in flight after a failed navigation to page 2 or beyond
C4_Witness ==
    inflight = <<>> /\ last.op = "done" /\ ~last.ok /\ currentPage >= 2

\* C5: at most one fetchWorkflows call is outstanding at any time.
C5_SingleFlight == Len(inflight) <= 1

\* C6: while some fetch is in flight, a next-page or previous-page trigger starts
\* no call and changes none of currentPage, pageUrlHistory, nextLink, totalCount
\* and the displayed records.
C6_NavigationDroppedWhilePending ==
    [][(inflight # <<>> /\ (handleNextPage \/ handlePrevPage)) =>
          (inflight' = inflight
           /\ UNCHANGED <<currentPage, pageUrlHistory, nextLink, totalCount, workflows>>)]_vars

\* the latest recorded step completed, successfully, a previous-page call that was
\* triggered with nothing pending right after the successful completion of a
\* next-page call that was itself triggered with nothing pending, no other call
\* having been started or completed in between
RoundTripDone ==
    /\ Completed("handlePrevPage", TRUE)
    /\ last.direct
    /\ last.f[1].idle
    /\ last.f[1].prior # <<>>
    /\ last.f[1].prior[1].trigger = "handleNextPage"
    /\ last.f[1].prior[1].ok
    /\ last.f[1].prior[1].direct
    /\ last.f[1].prior[1].idle

\* C7: a successful next-page followed by a successful previous-page, from an idle
\* state with pageUrlHistory = [.., A], ends with pageUrlHistory and currentPage as
\* they were before the next-page; the previous-page request went to A exactly, and
\* the displayed records are those returned for A.
C7_NextThenPrevRoundTrip ==
    RoundTripDone =>
        LET before == last.f[1].prior[1].pre
            H == before.pageUrlHistory
        IN /\ H # <<>>
           /\ pageUrlHistory = H
           /\ currentPage = before.currentPage
           /\ last.f[1].args.url = H[Len(H)]
           /\ requestUrl(last.f[1]) = H[Len(H)]
           /\ workflows = PageOf(H[Len(H)])

C7_Witness == RoundTripDone

\* C8: the call a trigger starts passes the applied filters as they are when the
\* call is started, whatever the draft holds.
C8_FetchUsesAppliedFilters ==
    last.op # "done" =>
        /\ last.f[1].args.searchTerm = appliedFilters.search
        /\ last.f[1].args.category = appliedFilters.category
        /\ last.f[1].args.status = appliedFilters.status

\* a next-page call was started while the draft differed from the applied filters
C8_Witness ==
    /\ last.op = "handleNextPage"
    /\ last.f[1].draft # appliedFilters
    /\ last.f[1].args.searchTerm # last.f[1].draft.search

\* C9: after a fetch fails an error is set and the record table is not rendered,
\* and a suppressed table comes back only by a step that completes a fetch
\* successfully.
C9_TableSuppressedUntilSuccess ==
    /\ []((last.op = "done" /\ ~last.ok) => (error # NoError /\ ~TableRendered))
    /\ [][(~TableRendered /\ TableRendered') =>
             (last'.op = "done" /\ last'.ok /\ Len(inflight') < Len(inflight))]_vars

\* a fetch has failed and nothing has been started since
C9_Witness == last.op = "done" /\ ~last.ok /\ ~isLoading

\* the places of token tok in locator u
Positions(u, tok) == {i \in 1..Len(u) : u[i] = tok}

\* C10: the request built without explicit url has no `category eq` clause when
\* category is null or negative, and exactly one, `category eq <category>`, inside
\* $filter, when category is 0 or more.
C10_CategoryClause ==
    (qUrl # <<>> /\ qArgs.url = <<>>) =>
        LET u == qUrl[1]
            at == Positions(u, "category+eq+")
        IN IF qArgs.category # Null /\ qArgs.category[1] >= 0
           THEN /\ Cardinality(at) = 1
                /\ \A i \in at :
                      /\ i < Len(u)
                      /\ u[i + 1] = ToString(qArgs.category[1])
                      /\ \E j \in Positions(u, "%24filter") : j < i
                      /\ \A j \in Positions(u, "%24orderby") : i < j
           ELSE at = {}

\* a request was built for category -1 together with other filters
C10_Witness ==
    /\ qUrl # <<>>
    /\ qArgs.url = <<>>
    /\ qArgs.category = <<-1>>
    /\ qArgs.status # Null

\* the value of parameter `name` in the query string of locator u: the tokens
\* between `name=` and the next `&` (or the end); <<>> when there is none
ParamValue(u, name) ==
    LET at == Positions(u, name)
    IN IF at = {} THEN <<>>
       ELSE LET i == CHOOSE k \in at : TRUE
                stops == {k \in (i + 1)..Len(u) : u[k] = "&"}
                end == IF stops = {} THEN Len(u)
                       ELSE (CHOOSE k \in stops : \A m \in stops : k <= m) - 1
            IN SubSeq(u, i + 2, end)

\* C11: the request built without explicit url has exactly one $orderby; it is
\* `modifiedon desc` when sortConfig.key is null, whatever the direction, and
\* `<key> asc` / `<key> desc` for an ascending / descending non-null key.
C11_OrderBy ==
    (qUrl # <<>> /\ qArgs.url = <<>>) =>
        LET u == qUrl[1]
            sc == qArgs.sortConfig
        IN /\ Cardinality(Positions(u, "%24orderby")) = 1
           /\ ParamValue(u, "%24orderby") =
                 IF sc.key = "" THEN <<"modifiedon", "+", "desc">>
                 ELSE IF sc.direction = "ascending" THEN <<sc.key, "+", "asc">>
                 ELSE <<sc.key, "+", "desc">>

\* a request was built for a null key with direction ascending
C11_Witness ==
    /\ qUrl # <<>>
    /\ qArgs.url = <<>>
    /\ qArgs.sortConfig = [key |-> "", direction |-> "ascending"]

\* the number of quote characters in a text
RECURSIVE Quotes(_)
Quotes(s) ==
    IF s = <<>> THEN 0 ELSE (IF Head(s) \in {"'", "%27"} THEN 1 ELSE 0) + Quotes(Tail(s))

\* every maximal run of quote characters in s has even length
RunsEven(s) ==
    \A i \in 1..Len(s) :
        (s[i] = "%27" /\ (i = 1 \/ s[i - 1] # "%27")) =>
            \E n \in 1..Len(s) :
                /\ n % 2 = 0
                /\ i + n - 1 <= Len(s)
                /\ \A k \in i..(i + n - 1) : s[k] = "%27"
                /\ (i + n > Len(s) \/ s[i + n] # "%27")

\* where the string literal whose content starts at position i of u ends, as the
\* remote query language reads it: at the first quote that is not the first of
\* a doubled pair (0 when the literal is not terminated)
RECURSIVE LiteralEnd(_, _)
LiteralEnd(u, i) ==
    IF i > Len(u) THEN 0
    ELSE IF u[i] # "%27" THEN LiteralEnd(u, i + 1)
    ELSE IF i < Len(u) /\ u[i + 1] = "%27" THEN LiteralEnd(u, i + 2)
    ELSE i

\* the text of a literal's content with every doubled quote read as one quote
RECURSIVE Unescaped(_)
Unescaped(s) ==
    IF s = <<>> THEN <<>>
    ELSE IF Head(s) = "%27"
         THEN <<"'">> \o (IF Len(s) >= 2 THEN Unescaped(Tail(Tail(s))) ELSE <<>>)
         ELSE <<Head(s)>> \o Unescaped(Tail(s))

\* C12: in the request built for a non-empty search text, each of the two
\* contains(...) literals holds the text with every quote doubled: its runs of
\* quotes have even length, it reads back as the text, and the literal ends at
\* its closing quote, right before the token that closes the contains(...).
C12_SearchQuotesDoubled ==
    (qUrl # <<>> /\ qArgs.url = <<>> /\ qArgs.searchTerm # <<>>) =>
        LET u == qUrl[1]
            open1 == Positions(u, "%28contains%28name%2C+")
            open2 == Positions(u, "%29+or+contains%28uniquename%2C+")
            close2 == Positions(u, "%29%29")
        IN /\ Cardinality(open1) = 1 /\ Cardinality(open2) = 1 /\ Cardinality(close2) = 1
           /\ \A i \in open1 : \A j \in open2 : \A k \in close2 :
                 LET lit1 == SubSeq(u, i + 2, j - 2)
                     lit2 == SubSeq(u, j + 2, k - 2)
                 IN /\ u[i + 1] = "%27" /\ u[j + 1] = "%27"
                    /\ LiteralEnd(u, i + 2) = j - 1
                    /\ LiteralEnd(u, j + 2) = k - 1
                    /\ RunsEven(lit1) /\ RunsEven(lit2)
                    /\ Quotes(lit1) = 2 * Quotes(qArgs.searchTerm)
                    /\ Quotes(lit2) = 2 * Quotes(qArgs.searchTerm)
                    /\ Unescaped(lit1) = qArgs.searchTerm
                    /\ Unescaped(lit2) = qArgs.searchTerm
           /\ Cardinality(Positions(u, "+and+")) =
                 (IF qArgs.status # Null THEN 1 ELSE 0)
                 + (IF qArgs.category # Null /\ qArgs.category[1] >= 0 THEN 1 ELSE 0)

\* a request was built for a search text that ends in a quote
C12_Witness ==
    /\ qUrl # <<>>
    /\ qArgs.url = <<>>
    /\ qArgs.searchTerm = <<"a", "'">>

\* text is w, possibly with blanks and line ends before and after it, and w
\* neither starts nor ends with one
IsTrimOf(w, text) ==
    /\ w = <<>> \/ (w[1] \notin Whitespace /\ w[Len(w)] \notin Whitespace)
    /\ \E i \in 0..Len(text) : \E j \in i..Len(text) :
          /\ w = SubSeq(text, i + 1, j)
          /\ \A k \in (1..i) \cup ((j + 1)..Len(text)) : text[k] \in Whitespace

\* C13: on a success response getAuthToken returns the trimmed body when the
\* body is plain text, the field token when the body is a JSON object with a
\* non-empty string token (whatever accessToken is), and the field accessToken
\* when token is absent and accessToken is a non-empty string; the data request
\* is then sent with that token.
C13_TokenFromBody ==
    (cOut # <<>> /\ cIn[1].tokenResp.ok) =>
        LET b == cIn[1].tokenResp.body
            out == cOut[1]
        IN /\ b.json = <<>> =>
                (out.requests = <<"token", "data">> /\ IsTrimOf(out.bearer, b.text))
           /\ (b.json # <<>> /\ b.json[1].isObject /\ b.json[1].token.type = "string"
                   /\ b.json[1].token.val # <<>>) =>
                (out.requests = <<"token", "data">> /\ out.bearer = b.json[1].token.val)
           /\ (b.json # <<>> /\ b.json[1].isObject /\ b.json[1].token.type = "absent"
                   /\ b.json[1].accessToken.type = "string"
                   /\ b.json[1].accessToken.val # <<>>) =>
                (out.requests = <<"token", "data">> /\ out.bearer = b.json[1].accessToken.val)

\* the credential endpoint answered a JSON object with both fields, different
C13_Witness ==
    /\ cOut # <<>>
    /\ cIn[1].tokenResp.ok
    /\ cIn[1].tokenResp.body.json # <<>>
    /\ cIn[1].tokenResp.body.json[1].token = str(<<"t1">>)
    /\ cIn[1].tokenResp.body.json[1].accessToken = str(<<"t2">>)

\* the success body is JSON, and holds neither a non-empty string token nor a
\* non-empty string accessToken
OtherShape(b) ==
    /\ b.json # <<>>
    /\ ~(b.json[1].isObject /\ b.json[1].token.type = "string" /\ b.json[1].token.val # <<>>)
    /\ ~(b.json[1].isObject /\ b.json[1].accessToken.type = "string"
            /\ b.json[1].accessToken.val # <<>>)

\* C14: when the credential endpoint answers success with a body of any other
\* shape, fetchWorkflows fails and sends no data request.
C14_MalformedCredentialIsError ==
    (cOut # <<>> /\ cIn[1].tokenResp.ok /\ OtherShape(cIn[1].tokenResp.body)) =>
        (cOut[1].threw /\ cOut[1].requests = <<"token">>)

\* what a step that issues no request leaves alone
NoRequest == inflight' = inflight /\ nfetch' = nfetch

\* C15: where nextLink is null, handleNextPage issues no request and leaves
\* currentPage, pageUrlHistory, nextLink, totalCount, the records, isLoading and
\* error unchanged.
C15_NextNoOpWithoutLink ==
    [][(nextLink = <<>> /\ handleNextPage) =>
          (NoRequest /\ UNCHANGED <<currentPage, pageUrlHistory, nextLink, totalCount,
                                    workflows, isLoading, error>>)]_vars

\* the last page is shown, idle, with the Next button on screen
C15_Witness ==
    /\ nextLink = <<>>
    /\ PaginationRendered
    /\ ~isLoading
    /\ inflight = <<>>
    /\ currentPage >= 2

\* C16: where currentPage <= 1, handlePrevPage issues no request and leaves
\* currentPage, pageUrlHistory, nextLink, totalCount, the records, isLoading and
\* error unchanged; and currentPage is at least 1 in every reachable state.
C16_PrevNoOpOnFirstPage ==
    /\ [](currentPage >= 1)
    /\ [][(currentPage <= 1 /\ handlePrevPage) =>
             (NoRequest /\ UNCHANGED <<currentPage, pageUrlHistory, nextLink, totalCount,
                                       workflows, isLoading, error>>)]_vars

\* page 1 is shown again after a successful previous-page, idle, with the
\* Previous button on screen
C16_Witness ==
    /\ Completed("handlePrevPage", TRUE)
    /\ currentPage = 1
    /\ PaginationRendered
    /\ ~isLoading
    /\ inflight = <<>>

C18_SortIsNewQuery ==
    /\ last.op = "handleSort" =>
          /\ last.started
          /\ Len(inflight) = last.pending + 1
          /\ inflight[Len(inflight)] = last.f[1]
          /\ last.f[1].isNewQuery
          /\ last.f[1].args = [sortConfig |-> sortConfig, searchTerm |-> appliedFilters.search,
                               category |-> appliedFilters.category,
                               status |-> appliedFilters.status, url |-> <<>>]
    /\ Completed("handleSort", TRUE) =>
          /\ currentPage = 1
          /\ pageUrlHistory = <<last.data[1].requestUrl>>
          /\ last.data[1].requestUrl = requestUrl(last.f[1])
          /\ ParamValue(last.data[1].requestUrl, "%24orderby") =
                <<last.f[1].args.sortConfig.key, "+",
                  IF last.f[1].args.sortConfig.direction = "ascending" THEN "asc" ELSE "desc">>

\* a sort made at page 2 or beyond has succeeded
C18_Witness ==
    Completed("handleSort", TRUE) /\ last.f[1].pre.currentPage > 1

\* C19: an edit of the draft filters issues no request and leaves appliedFilters,
\* sortConfig, currentPage, pageUrlHistory, nextLink, totalCount and the records
\* unchanged; appliedFilters changes only by handleApplyFilters, to the draft.
C19_DraftEditsAreLocal ==
    /\ [][(setSearchTerm \/ setSelectedCategory \/ setSelectedStatus) =>
             (NoRequest /\ UNCHANGED <<appliedFilters, sortConfig, currentPage, pageUrlHistory,
                                       nextLink, totalCount, workflows>>)]_vars
    /\ [][(appliedFilters' # appliedFilters) =>
             (handleApplyFilters /\ appliedFilters' = draftFilters)]_vars

\* records are shown, nothing is pending, and the draft search text differs from
\* the applied one
C19_Witness ==
    /\ searchTerm # appliedFilters.search
    /\ inflight = <<>>
    /\ workflows # <<>>
    /\ last.op = "done"

\* C20: currentPage, pageUrlHistory, nextLink and totalCount change only in a
\* step that completes a fetch; a step that starts one leaves them as they were.
C20_PageStateChangesOnCompletionOnly ==
    [][(<<currentPage, pageUrlHistory, nextLink, totalCount>>' #
            <<currentPage, pageUrlHistory, nextLink, totalCount>>) =>
          (last'.op = "done" /\ Len(inflight') < Len(inflight))]_vars

\* C21: given an explicit locator, fetchWorkflows sends the data request to that
\* locator exactly, whatever the sort and filter arguments; and every successful
\* call returns as requestUrl the locator its data request was sent to.
C21_ExplicitLocatorVerbatim ==
    (cOut # <<>> /\ cOut[1].dataUrl # <<>>) =>
        /\ cIn[1].args.url # <<>> => cOut[1].dataUrl[1] = cIn[1].args.url
        /\ ~cOut[1].threw =>
              /\ cOut[1].data # <<>>
              /\ cOut[1].data[1].requestUrl = cOut[1].dataUrl[1]
              /\ cOut[1].data[1].workflows = PageOf(cOut[1].dataUrl[1])

\* a call with an explicit locator, and sort and filter arguments that would
\* build another request, has succeeded
C21_Witness ==
    /\ cOut # <<>>
    /\ ~cOut[1].threw
    /\ cIn[1].args.url # <<>>
    /\ cIn[1].args.searchTerm # <<>>
    /\ cIn[1].args.url # fetchUrl(cIn[1].args.sortConfig, cIn[1].args.searchTerm,
                                   cIn[1].args.category, cIn[1].args.status, <<>>)

\* C23: the request built without explicit locator has a `statecode eq <status>`
\* clause iff status is non-null, a search clause iff the search text is non-empty
\* and a category clause iff category is non-null and >= 0, each at most once and
\* all inside $filter; the clauses present are joined by ` and `; and there is no
\* $filter parameter iff no clause is present.
C23_FilterClauses ==
    (qUrl # <<>> /\ qArgs.url = <<>>) =>
        LET u == qUrl[1]
            filter == ParamValue(u, "%24filter")
            hasStatus == qArgs.status # Null
            hasSearch == qArgs.searchTerm # <<>>
            hasCategory == qArgs.category # Null /\ qArgs.category[1] >= 0
            n == (IF hasStatus THEN 1 ELSE 0) + (IF hasSearch THEN 1 ELSE 0)
                 + (IF hasCategory THEN 1 ELSE 0)
            statusAt == Positions(filter, "statecode+eq+")
            searchAt == Positions(filter, "%28contains%28name%2C+")
            categoryAt == Positions(filter, "category+eq+")
        IN /\ Cardinality(Positions(u, "%24filter")) = (IF n = 0 THEN 0 ELSE 1)
           /\ Positions(u, "statecode+eq+") = {} \/ n > 0
           /\ Cardinality(Positions(u, "statecode+eq+")) = Cardinality(statusAt)
           /\ Cardinality(Positions(u, "%28contains%28name%2C+")) = Cardinality(searchAt)
           /\ Cardinality(Positions(u, "category+eq+")) = Cardinality(categoryAt)
           /\ Cardinality(statusAt) = (IF hasStatus THEN 1 ELSE 0)
           /\ \A i \in statusAt : filter[i + 1] = ToString(qArgs.status[1])
           /\ Cardinality(searchAt) = (IF hasSearch THEN 1 ELSE 0)
           /\ Cardinality(categoryAt) = (IF hasCategory THEN 1 ELSE 0)
           /\ Cardinality(Positions(filter, "+and+")) = (IF n = 0 THEN 0 ELSE n - 1)
           /\ Cardinality(Positions(u, "+and+")) = Cardinality(Positions(filter, "+and+"))
           /\ \A i \in Positions(filter, "+and+") :
                 /\ 1 < i /\ i < Len(filter)
                 /\ filter[i + 1] \in {"statecode+eq+", "%28contains%28name%2C+", "category+eq+"}

\* a request was built for status 0 alone
C23_Witness ==
    /\ qUrl # <<>>
    /\ qArgs.url = <<>>
    /\ qArgs.status = <<0>>
    /\ qArgs.searchTerm = <<>>
    /\ qArgs.category = Null

\* the error shown when the credential endpoint has answered 401
CredentialRefused ==
    "Failed to fetch data: HTTP error 401 while fetching token.. Please check console for details."

\* a step that completes a pending call
Completes == Len(inflight') < Len(inflight)

\* C22: every call sends its own credential request when it starts; a data
\* request is sent only by a pending call, after that; and when the credential
\* endpoint answers with a non-success status the call fails with no data
\* request sent, the error is shown, loading ends, and the step leaves
\* currentPage, pageUrlHistory, nextLink, totalCount and the records as they are.
C22_CredentialBeforeData ==
    /\ [](last.op # "done" =>
             (last.started /\ last.requests = <<"token">> /\ inflight # <<>>
              /\ inflight[Len(inflight)] = last.f[1]))
    /\ [][Completes =>
             /\ last'.op = "done"
             /\ last'.requests \in {<<>>, <<"data">>}
             /\ \E i \in 1..Len(inflight) : inflight[i] = last'.f[1]
             /\ last'.ok => last'.requests = <<"data">>
             /\ ~last'.ok => (last'.requests = <<>> <=> error' = CredentialRefused)]_vars
    /\ [][(Completes /\ ~last'.ok /\ error' = CredentialRefused) =>
             /\ last'.requests = <<>>
             /\ ~isLoading'
             /\ UNCHANGED <<currentPage, pageUrlHistory, nextLink, totalCount, workflows>>]_vars

\* records are shown from an earlier call, and a later call has failed on a
\* refused credential
C22_Witness ==
    /\ last.op = "done"
    /\ error = CredentialRefused
    /\ last.requests = <<>>
    /\ workflows # <<>>
    /\ last.f[1].trigger # "mount"

\* the first-page locator of the query a locator pages through
BaseOf(url) == IF hasSkip(url) THEN SubSeq(url, 1, Len(url) - 2) ELSE url

\* the first-page locator of the query built from the applied filters and the
\* current sort
CurrentQuery ==
    fetchUrl(sortConfig, appliedFilters.search, appliedFilters.category,
             appliedFilters.status, <<>>)

\* no call is pending, the latest step completed a call successfully, and no
\* error is left from a call that completed after the latest start
Settled == inflight = <<>> /\ last.op = "done" /\ last.ok /\ error = NoError

\* C24: once no fetch is outstanding and the last completed fetches succeeded,
\* the displayed records, nextLink and totalCount are those of a response to a
\* request of the query built from the currently applied filters and sort, and
\* every entry of pageUrlHistory is a locator of that query
C24_SettledShowsCurrentQuery ==
    Settled =>
        /\ BaseOf(last.data[1].requestUrl) = CurrentQuery
        /\ workflows = last.data[1].workflows
        /\ nextLink = last.data[1].nextLink
        /\ totalCount = last.data[1].totalCount
        /\ \A i \in 1..Len(pageUrlHistory) : BaseOf(pageUrlHistory[i]) = CurrentQuery

\* C25: in every state with no fetch outstanding and no error shown, the last
\* entry of pageUrlHistory is the locator of the request whose response gave the
\* displayed records and the current nextLink
C25_HistoryEndsAtDisplayedPage ==
    (inflight = <<>> /\ error = NoError) =>
        /\ pageUrlHistory # <<>>
        /\ workflows = PageOf(pageUrlHistory[Len(pageUrlHistory)])
        /\ nextLink \in {<<>>, NextLinkOf(pageUrlHistory[Len(pageUrlHistory)])}

\* C26: when the call started last completes successfully and no call remains
\* pending, no error is shown
C26_NewestSuccessClearsError ==
    (last.op = "done" /\ last.ok /\ last.f[1].seq = nfetch /\ inflight = <<>>) =>
        error = NoError

\* C27: isLoading is true whenever a fetch is outstanding; and, every request
\* returning, every started fetch completes and the controller comes to rest
\* with isLoading false, where next and previous are accepted again
C27_LoadingUntilAllComplete ==
    /\ [](inflight # <<>> => isLoading)
    /\ \A n \in 1..MaxFetches :
          (\E i \in 1..Len(inflight) : inflight[i].seq = n)
              ~> (\A i \in 1..Len(inflight) : inflight[i].seq # n)
    /\ (inflight # <<>>) ~> (inflight = <<>> /\ ~isLoading)

====
